---- MODULE Spec2Model ----
(***************************************************************************)
(* A model of stactools.osc_hazard.cubify: the indexing of an OS-Climate   *)
(* Zarr store by its array keys, the grouping of the index by year, and    *)
(* the assembly and persistence of one data cube per group.                *)
(*                                                                         *)
(* Strings (store keys, paths, names) are sequences of one-character       *)
(* strings, so that pattern matching, suffix stripping and formatting are  *)
(* computed character by character, as the code computes them.             *)
(***************************************************************************)
EXTENDS Integers, Sequences, FiniteSets, TLC

(***************************************************************************)
(* Characters.                                                             *)
(***************************************************************************)
DigitSeq == <<"0", "1", "2", "3", "4", "5", "6", "7", "8", "9">>

UpperSeq == <<"A", "B", "C", "D", "E", "F", "G", "H", "I", "J", "K", "L", "M",
              "N", "O", "P", "Q", "R", "S", "T", "U", "V", "W", "X", "Y", "Z">>

LowerSeq == <<"a", "b", "c", "d", "e", "f", "g", "h", "i", "j", "k", "l", "m",
              "n", "o", "p", "q", "r", "s", "t", "u", "v", "w", "x", "y", "z">>

\* The characters that occur in keys and paths, in code point order.
CodePointOrder == <<"-", ".", "/">> \o DigitSeq \o UpperSeq \o <<"_">> \o LowerSeq

Range(s) == {s[n] : n \in DOMAIN s}

\* [0-9] and \d (on the characters above)
DigitClass == Range(DigitSeq)

\* [a-zA-Z0-9]
ScenarioClass == Range(LowerSeq) \cup Range(UpperSeq) \cup DigitClass

\* [a-zA-Z0-9-]
GcmClass == ScenarioClass \cup {"-"}

\* ord(c), up to an order-preserving renumbering
Ord(c) == CHOOSE n \in DOMAIN CodePointOrder : CodePointOrder[n] = c

\* Python's str comparison a < b: lexicographic by code point.
RECURSIVE StrLess(_, _)
StrLess(a, b) ==
    IF b = <<>> THEN FALSE
    ELSE IF a = <<>> THEN TRUE
    ELSE IF a[1] # b[1] THEN Ord(a[1]) < Ord(b[1])
    ELSE StrLess(Tail(a), Tail(b))

StartsWith(s, p) == Len(s) >= Len(p) /\ SubSeq(s, 1, Len(p)) = p

EndsWith(s, p) == Len(s) >= Len(p) /\ SubSeq(s, Len(s) - Len(p) + 1, Len(s)) = p

\* str.removesuffix
RemoveSuffix(s, p) == IF EndsWith(s, p) THEN SubSeq(s, 1, Len(s) - Len(p)) ELSE s

(***************************************************************************)
(* Names fixed by the code.                                                *)
(***************************************************************************)
\* INDICATOR_NAME = "indicator"
INDICATOR_NAME == <<"i", "n", "d", "i", "c", "a", "t", "o", "r">>

ZarraySuffix == <<"/", ".", "z", "a", "r", "r", "a", "y">>

NestedSuffix == <<"/">> \o INDICATOR_NAME \o ZarraySuffix

DaysTasAbove == <<"d", "a", "y", "s", "_", "t", "a", "s", "_", "a", "b", "o", "v", "e">>

DegreeDays == <<"d", "e", "g", "r", "e", "e", "_", "d", "a", "y", "s">>

\* SUPPORTED_INDICATORS = list(ATTRS)
SUPPORTED_INDICATORS == {DaysTasAbove, DegreeDays}

\* ATTRS[indicator_name][name] for the index fields, the same for both
\* indicators
COORD_ATTRS ==
    [temperature |-> [long_name |-> "Threshold temperature", units |-> "Degrees Celsius"],
     gcm         |-> [long_name |-> "Name of general circulation model"],
     scenario    |-> [long_name |-> "Name of climate scenario"],
     time        |-> [long_name |-> "Central predicted year"]]

\* ATTRS[indicator_name][indicator_name]
ATTRS(name) ==
    IF name = DaysTasAbove
    THEN [long_name |-> "Days per year for which the average near-surface temperature 'tas' is above a threshold",
          units |-> "Days per year"]
    ELSE [long_name |-> "Time integral of absolute difference in temperature of the medium over a reference temperature",
          units |-> "Days per year"]

(***************************************************************************)
(* _parse_index_name: re.match of                                          *)
(*   {prefix}_([0-9]+\.?[0-9]+)c_([a-zA-Z0-9-]+)_([a-zA-Z0-9]+)_(\d+)*.*   *)
(* with prefix ".*", then float(), int() and datetime(year, 1, 1).         *)
(***************************************************************************)
\* The length of the longest run of characters of class C in s from position n.
RECURSIVE RunLen(_, _, _)
RunLen(s, n, C) ==
    IF n <= Len(s) /\ s[n] \in C THEN 1 + RunLen(s, n + 1, C) ELSE 0

CharAt(s, n) == IF n \in DOMAIN s THEN s[n] ELSE ""

\* ([0-9]+\.?[0-9]+)c at position n, given the lengths d1 and d2 of the digit
\* runs at n and after the character that follows the first run: the length of
\* group 1, or 0 when there is no match.  Both [0-9]+ are greedy and the next
\* character must be "c": with a point the groups are the two whole digit runs
\* around it; without one the digit run is shared by the two [0-9]+ and so has
\* at least two digits.
TemperatureRuns(s, n, d1, d2) ==
    IF d1 = 0 THEN 0
    ELSE IF CharAt(s, n + d1) = "." /\ d2 >= 1 /\ CharAt(s, n + d1 + 1 + d2) = "c"
         THEN d1 + 1 + d2
    ELSE IF d1 >= 2 /\ CharAt(s, n + d1) = "c" THEN d1
    ELSE 0

TemperatureFrom(s, n, d1) == TemperatureRuns(s, n, d1, RunLen(s, n + d1 + 1, DigitClass))

TemperatureLen(s, n) == TemperatureFrom(s, n, RunLen(s, n, DigitClass))

\* The groups of a match: temperature of length t at n, gcm of length g at gs,
\* scenario of length sc at ss, and the year digits of length y at ys.
MatchGroups(s, n, t, gs, g, ss, sc, ys, y) ==
    IF /\ t >= 1
       /\ CharAt(s, n + t) = "c"
       /\ CharAt(s, n + t + 1) = "_"
       /\ g >= 1
       /\ CharAt(s, gs + g) = "_"
       /\ sc >= 1
       /\ CharAt(s, ss + sc) = "_"
    THEN [matched |-> TRUE,
          temperature |-> SubSeq(s, n, n + t - 1),
          gcm |-> SubSeq(s, gs, gs + g - 1),
          scenario |-> SubSeq(s, ss, ss + sc - 1),
          year |-> SubSeq(s, ys, ys + y - 1)]
    ELSE [matched |-> FALSE]

\* (\d+)* takes the whole digit run and is unset (None) when there is none;
\* the final .* takes the rest.
MatchYear(s, n, t, gs, g, ss, sc, ys) ==
    MatchGroups(s, n, t, gs, g, ss, sc, ys, RunLen(s, ys, DigitClass))

\* The classes of gcm and scenario exclude "_", so each group is a whole run
\* followed by "_".
MatchScenario(s, n, t, gs, g, ss) ==
    MatchYear(s, n, t, gs, g, ss, RunLen(s, ss, ScenarioClass),
              ss + RunLen(s, ss, ScenarioClass) + 1)

MatchGcm(s, n, t, gs) ==
    MatchScenario(s, n, t, gs, RunLen(s, gs, GcmClass), gs + RunLen(s, gs, GcmClass) + 1)

\* The pattern after "{prefix}_", matched at position n.
MatchFields(s, n) == MatchGcm(s, n, TemperatureLen(s, n), n + TemperatureLen(s, n) + 2)

\* The prefix as ".+": at least one character before the "_".
MatchPositionsAfterPrefix(key) ==
    {n \in DOMAIN key : n > 1 /\ key[n] = "_" /\ MatchFields(key, n + 1).matched}

\* The positions of the "_" after which the fields match.
MatchPositions(key) == {n \in DOMAIN key : key[n] = "_" /\ MatchFields(key, n + 1).matched}

Greatest(S) == CHOOSE n \in S : \A k \in S : k <= n

Least(S) == CHOOSE n \in S : \A k \in S : n <= k

MatchAt(key, at) ==
    IF at = {} THEN [matched |-> FALSE] ELSE MatchFields(key, Greatest(at) + 1)

\* re.match with prefix ".*": the prefix is greedy, so the match is the one
\* at the last "_" after which the fields match.
ReMatch(key) == MatchAt(key, MatchPositions(key))

DigitValue(c) == (CHOOSE n \in DOMAIN DigitSeq : DigitSeq[n] = c) - 1

\* int() of a string of digits
RECURSIVE IntOf(_)
IntOf(ds) ==
    IF ds = <<>> THEN 0
    ELSE 10 * IntOf(SubSeq(ds, 1, Len(ds) - 1)) + DigitValue(ds[Len(ds)])

RECURSIVE Pow10(_)
Pow10(n) == IF n = 0 THEN 1 ELSE 10 * Pow10(n - 1)

\* A decimal m / 10^e with no trailing zero in the fraction.
RECURSIVE Normalize(_, _)
Normalize(m, e) == IF e > 0 /\ m % 10 = 0 THEN Normalize(m \div 10, e - 1) ELSE <<m, e>>

FloatAt(t, p) ==
    Normalize(IntOf(SubSeq(t, 1, p - 1) \o SubSeq(t, p + 1, Len(t))), Len(t) - p)

\* float() of digits[.digits]: the number, as <<m, e>> for m / 10^e, normalized
\* so that two strings give equal values exactly when the floats are equal.
FloatOf(t) ==
    IF \A n \in DOMAIN t : t[n] # "." THEN <<IntOf(t), 0>>
    ELSE FloatAt(t, CHOOSE n \in DOMAIN t : t[n] = ".")

FloatLess(a, b) == a[1] * Pow10(b[2]) < b[1] * Pow10(a[2])

\* datetime.datetime(year, 1, 1), as <<year, month, day>>
DateLess(a, b) == a[1] < b[1]

\* float(temperature), int(year) and datetime(int(year), 1, 1) on the groups
\* of a match: an unset year group makes int(None) raise TypeError, and
\* datetime raises ValueError outside MINYEAR..MAXYEAR (1..9999).
IndexOfGroups(temperature, gcm, scenario, year) ==
    IF year = <<>> THEN [ok |-> FALSE, error |-> "TypeError"]
    ELSE IF IntOf(year) < 1 \/ IntOf(year) > 9999 THEN [ok |-> FALSE, error |-> "ValueError"]
    ELSE [ok |-> TRUE,
          index |-> [temperature |-> FloatOf(temperature),
                     gcm |-> gcm,
                     scenario |-> scenario,
                     time |-> <<IntOf(year), 1, 1>>]]

IndexOfMatch(match) ==
    IF ~match.matched THEN [ok |-> FALSE, error |-> "ValueError"]
    ELSE IndexOfGroups(match.temperature, match.gcm, match.scenario, match.year)

\* The result of _parse_index_name(key): the index record, or the exception.
\* No match raises ValueError.
ParseIndexName(key) == IndexOfMatch(ReMatch(key))

(***************************************************************************)
(* fnmatch.filter(all_keys, "*_????" + suffix): "*" and "?" match any      *)
(* characters, "/" included, and the pattern covers the whole key.         *)
(***************************************************************************)
FnMatch(key, suffix) ==
    /\ EndsWith(key, suffix)
    /\ Len(key) >= Len(suffix) + 5
    /\ key[Len(key) - Len(suffix) - 4] = "_"

(***************************************************************************)
(* The file system.  A DirectoryStore is a directory: its keys are the     *)
(* paths of the files below it, relative to it.  fs maps the path of each  *)
(* file to its content.                                                    *)
(***************************************************************************)
\* pathlib's dir / name
Join(dir, name) == dir \o <<"/">> \o name

Under(path, dir) == StartsWith(path, dir \o <<"/">>)

\* store.keys(), as a set: the enumeration order is the directory's
StoreKeys(f, dir) == {SubSeq(p, Len(dir) + 2, Len(p)) : p \in {q \in DOMAIN f : Under(q, dir)}}

\* Path.is_dir(), for a directory that holds files
IsDir(f, path) == \E p \in DOMAIN f : Under(p, path)

\* shutil.rmtree(path)
RmTree(f, path) == [p \in {q \in DOMAIN f : ~Under(q, path)} |-> f[p]]

(***************************************************************************)
(* The inputs of a run.                                                    *)
(***************************************************************************)
\* The most source arrays a store of the model holds.
MaxKeys == 3

StorePath == <<"/", "i", "n">>

\* output_dir: a directory of its own, or the directory of the source store
OutputDirs == {<<"/", "o", "u", "t">>, StorePath}

FieldsTail == <<"c", "_", "m", "o", "d", "e", "l", "A", "_", "r", "c", "p", "4", "5", "_">>

\* The array keys a store of the model is made of: keys of the expected
\* structure (two of them with the same fields, under the prefix "p" and under
\* the empty prefix), a key with neither prefix nor "_" before the temperature,
\* keys with a malformed year or temperature, and keys of the nested layout.
KeyPool ==
    << <<"p", "_", "1", ".", "5">> \o FieldsTail \o <<"2", "0", "3", "0">>,
       <<"p", "_", "2", ".", "0">> \o FieldsTail \o <<"2", "0", "3", "0">>,
       <<"p", "_", "1", ".", "5">> \o FieldsTail \o <<"2", "0", "3", "1">>,
       <<"_", "1", ".", "5">> \o FieldsTail \o <<"2", "0", "3", "0">>,
       <<"1", ".", "5">> \o FieldsTail \o <<"2", "0", "3", "0">>,
       <<"p", "_", "1", ".", "5">> \o FieldsTail \o <<"a", "b", "c", "d">>,
       <<"p", "_", "1", ".", "5">> \o FieldsTail \o <<"2", "0", "a", "b">>,
       <<"p", "_", "5">> \o FieldsTail \o <<"2", "0", "3", "0">>,
       <<"p", "_", "2", ".", "0">> \o FieldsTail \o <<"2", "0", "3", "0">> \o <<"/">> \o INDICATOR_NAME,
       <<"p", "_", "1", ".", "5">> \o FieldsTail \o <<"2", "0", "3", "1">> \o <<"/">> \o INDICATOR_NAME >>

\* The stored array of KeyPool[k]: a leading "index" axis of length one over
\* the native axis.  The values tell the arrays apart and are never zero.
SourceArray(k) == << <<k, k + Len(KeyPool)>> >>

ZgroupFile == Join(StorePath, <<".", "z", "g", "r", "o", "u", "p">>)

ArrayFile(key) == Join(StorePath, key \o ZarraySuffix)

\* A source store holding the arrays of the chosen keys.
SourceFiles(chosen) ==
    [p \in {ZgroupFile} \cup {ArrayFile(KeyPool[k]) : k \in chosen} |->
        IF p = ZgroupFile THEN [group |-> "zarr"]
        ELSE [array |-> SourceArray(CHOOSE k \in chosen : p = ArrayFile(KeyPool[k]))]]

DotZarr == <<".", "z", "a", "r", "r">>

Zmetadata == <<".", "z", "m", "e", "t", "a", "d", "a", "t", "a">>

\* A store left by an earlier run at the output path of year 2030.
StalePath(dir, name) == Join(dir, name \o <<"_", "2", "0", "3", "0">> \o DotZarr)

StaleFiles(dir, name) ==
    [p \in {Join(StalePath(dir, name), Zmetadata),
            Join(StalePath(dir, name), <<"o", "l", "d">> \o ZarraySuffix)} |-> [stale |-> "old"]]

(***************************************************************************)
(* _index_arrays                                                           *)
(***************************************************************************)
FnFilter(keys, suffix) == {k \in keys : FnMatch(k, suffix)}

\* The nested convention first, the flat one when no key is nested.
ArrayKeys(all_keys) ==
    LET nested == FnFilter(all_keys, NestedSuffix)
    IN  IF nested # {} THEN nested ELSE FnFilter(all_keys, ZarraySuffix)

\* The test for an empty match left out.
NoMatchingKeysUnchecked(array_keys) == FALSE

\* if not array_keys (after both conventions)
NoMatchingKeys(array_keys) == array_keys = {}

\* The orders in which a set can be enumerated.
Orderings(S) ==
    {s \in [1..Cardinality(S) -> S] : \A a, b \in 1..Cardinality(S) : a # b => s[a] # s[b]}

(***************************************************************************)
(* cubify: grouping by year.  A dict is a sequence of its items in         *)
(* insertion order.                                                        *)
(***************************************************************************)
YearOf(index) == index.time[1]

\* The group of a year begun anew at every item of that year.
RECURSIVE GroupSplitReset(_)
GroupSplitReset(ix) ==
    IF ix = <<>> THEN <<>>
    ELSE LET before == GroupSplitReset(SubSeq(ix, 1, Len(ix) - 1))
             item   == ix[Len(ix)]
             year   == YearOf(item.index)
             at     == {k \in DOMAIN before : before[k].year = year}
         IN  IF at = {}
             THEN Append(before, [year |-> year, indexes |-> <<item>>])
             ELSE [before EXCEPT ![CHOOSE k \in at : TRUE].indexes = <<item>>]

RECURSIVE GroupSplit(_)
GroupSplit(ix) ==
    IF ix = <<>> THEN <<>>
    ELSE LET before == GroupSplit(SubSeq(ix, 1, Len(ix) - 1))
             item   == ix[Len(ix)]
             year   == YearOf(item.index)
             at     == {k \in DOMAIN before : before[k].year = year}
         IN  IF at = {}
             THEN Append(before, [year |-> year, indexes |-> <<item>>])
             ELSE [before EXCEPT ![CHOOSE k \in at : TRUE].indexes = Append(@, item)]

\* The single group keyed by the year of the last record.
GroupLastYear(ix) == << [year |-> YearOf(ix[Len(ix)].index), indexes |-> ix] >>

GroupFirstYear(ix) == << [year |-> YearOf(ix[1].index), indexes |-> ix] >>

(***************************************************************************)
(* build_yearly_zarr_cubes                                                 *)
(***************************************************************************)
RECURSIVE DecimalDigits(_)
DecimalDigits(k) ==
    IF k < 10 THEN <<DigitSeq[k + 1]>>
    ELSE Append(DecimalDigits(k \div 10), DigitSeq[(k % 10) + 1])

RECURSIVE ZeroPad(_, _)
ZeroPad(ds, width) == IF Len(ds) >= width THEN ds ELSE ZeroPad(<<"0">> \o ds, width)

\* f"{year:04d}"
Format04d(year) == ZeroPad(DecimalDigits(year), 4)

\* output_dir / f"{indicator_name}_{year:04d}.zarr"
OutputPath(dir, name, year) == Join(dir, name \o <<"_">> \o Format04d(year) \o DotZarr)

\* The store at the output path left in place.
KeepStore(f, path) == f

\* if output_path.is_dir(): shutil.rmtree(output_path)
ClearStore(f, path) == IF IsDir(f, path) THEN RmTree(f, path) ELSE f

\* target.read(key), then .isel(index=0)
ReadSourceArray(f, key) == f[ArrayFile(key)].array[1]

SetAsSeq(S) == CHOOSE s \in [1..Cardinality(S) -> S] : \A x \in S : \E k \in DOMAIN s : s[k] = x

\* _indexes_to_coords: per field, sorted(set of the values)
IndexesToCoords(ix) ==
    [temperature |-> SortSeq(SetAsSeq({ix[k].index.temperature : k \in DOMAIN ix}), FloatLess),
     gcm         |-> SortSeq(SetAsSeq({ix[k].index.gcm : k \in DOMAIN ix}), StrLess),
     scenario    |-> SortSeq(SetAsSeq({ix[k].index.scenario : k \in DOMAIN ix}), StrLess),
     time        |-> SortSeq(SetAsSeq({ix[k].index.time : k \in DOMAIN ix}), DateLess)]

\* [len(values) for values in coords.values()]: the index fields in the order
\* of the record, then the native axis of the sample array
ShapeOf(coords) ==
    <<Len(coords.temperature), Len(coords.gcm), Len(coords.scenario), Len(coords.time),
      Len(coords.native)>>

Positions(shape) ==
    {<<a, b, c, d, e>> : a \in 1..shape[1], b \in 1..shape[2], c \in 1..shape[3],
                         d \in 1..shape[4], e \in 1..shape[5]}

\* np.ones in place of np.zeros.
CreateArrayOfOnes(coords, name) ==
    [name   |-> name,
     attrs  |-> ATTRS(name),
     coord_attrs |-> COORD_ATTRS,
     coords |-> coords,
     shape  |-> ShapeOf(coords),
     values |-> [q \in Positions(ShapeOf(coords)) |-> 1]]

\* _create_empty_array: np.zeros(shape) over the coordinates, named and
\* attributed after the indicator.  The attributes that the sample array
\* brings (its own, and those of its native axis) are not held.
CreateEmptyArray(coords, name) ==
    [name   |-> name,
     attrs  |-> ATTRS(name),
     coord_attrs |-> COORD_ATTRS,
     coords |-> coords,
     shape  |-> ShapeOf(coords),
     values |-> [q \in Positions(ShapeOf(coords)) |-> 0]]

PositionOf(axis, value) == CHOOSE k \in DOMAIN axis : axis[k] = value

\* da.loc[index] = source_data
LocAssign(d, index, source_data) ==
    LET at == <<PositionOf(d.coords.temperature, index.temperature),
                PositionOf(d.coords.gcm, index.gcm),
                PositionOf(d.coords.scenario, index.scenario),
                PositionOf(d.coords.time, index.time)>>
    IN  [d EXCEPT !.values =
            [q \in DOMAIN @ |-> IF SubSeq(q, 1, 4) = at THEN source_data[q[5]] ELSE @[q]]]

\* ds.to_zarr(output_path, mode="a", consolidated=True): the dataset is
\* written into the store at output_path; what else the store holds stays
ToZarr(f, path, d) == (Join(path, Zmetadata) :> [dataset |-> d]) @@ f

(***************************************************************************)
(* The state of a run of cubify.                                           *)
(***************************************************************************)
VARIABLES
    fs,               \* the file system
    fs0,              \* the file system when the run started
    output_dir, indicator_name, split_years,    \* the arguments of cubify
    pc,               \* where the run is
    error,            \* the exception that ended the run, or "none"
    parsed,           \* the keys handed to _parse_index_name so far
    indexes,          \* the index catalog
    indexes_grouped,  \* the grouped catalog
    g,                \* the group the loop of build_yearly_zarr_cubes is at
    output_paths,     \* year -> output path
    da,               \* the cube of the current group
    cursor,           \* the item the fill loop is at
    cubes             \* output path -> the cube handed to to_zarr for it

vars == <<fs, fs0, output_dir, indicator_name, split_years, pc, error, parsed,
          indexes, indexes_grouped, g, output_paths, da, cursor, cubes>>

\* A mapping with no key: an empty directory tree, an empty dict.
EmptyMap == [p \in {} |-> [stale |-> "old"]]

NoCube == [name |-> <<>>]

Init ==
    \E chosen \in SUBSET (DOMAIN KeyPool), dir \in OutputDirs,
       name \in SUPPORTED_INDICATORS, split \in BOOLEAN, stale \in BOOLEAN :
        /\ Cardinality(chosen) <= MaxKeys
        /\ fs = SourceFiles(chosen) @@ (IF stale THEN StaleFiles(dir, name) ELSE EmptyMap)
        /\ fs0 = fs
        /\ output_dir = dir
        /\ indicator_name = name
        /\ split_years = split
        /\ pc = "index"
        /\ error = "none"
        /\ parsed = <<>>
        /\ indexes = <<>>
        /\ indexes_grouped = <<>>
        /\ g = 1
        /\ output_paths = EmptyMap
        /\ da = NoCube
        /\ cursor = 1
        /\ cubes = EmptyMap

\* _index_arrays(store): RuntimeError when no key matches either convention;
\* otherwise every key is parsed in turn and the first failure ends the run.
IndexArrays ==
    /\ pc = "index"
    /\ LET array_set == ArrayKeys(StoreKeys(fs, StorePath))
       IN  IF NoMatchingKeys(array_set)
           THEN /\ error' = "RuntimeError"
                /\ pc' = "failed"
                /\ UNCHANGED <<parsed, indexes>>
           ELSE \E array_keys \in Orderings(array_set) :
                LET keys == [k \in DOMAIN array_keys |-> RemoveSuffix(array_keys[k], ZarraySuffix)]
                    bad  == {k \in DOMAIN keys : ~ParseIndexName(keys[k]).ok}
                IN  IF bad = {}
                    THEN /\ indexes' = [k \in DOMAIN keys |->
                                          [key |-> keys[k], index |-> ParseIndexName(keys[k]).index]]
                         /\ parsed' = keys
                         /\ pc' = "group"
                         /\ UNCHANGED error
                    ELSE LET first == CHOOSE k \in bad : \A j \in bad : k <= j
                         IN  /\ parsed' = SubSeq(keys, 1, first)
                             /\ error' = ParseIndexName(keys[first]).error
                             /\ pc' = "failed"
                             /\ UNCHANGED indexes
    /\ UNCHANGED <<fs, fs0, output_dir, indicator_name, split_years, indexes_grouped,
                   g, output_paths, da, cursor, cubes>>

\* cubify, lines 145-156
GroupByYear ==
    /\ pc = "group"
    /\ indexes_grouped' = IF split_years THEN GroupSplit(indexes) ELSE GroupFirstYear(indexes)
    /\ pc' = "prepare"
    /\ UNCHANGED <<fs, fs0, output_dir, indicator_name, split_years, error, parsed,
                   indexes, g, output_paths, da, cursor, cubes>>

Group == indexes_grouped[g]

CurrentPath == OutputPath(output_dir, indicator_name, Group.year)

\* lines 97-104: the output path of the group; a store already there is removed
PrepareOutput ==
    /\ pc = "prepare"
    /\ output_paths' = (Group.year :> CurrentPath) @@ output_paths
    /\ fs' = ClearStore(fs, CurrentPath)
    /\ pc' = "create"
    /\ UNCHANGED <<fs0, output_dir, indicator_name, split_years, error, parsed,
                   indexes, indexes_grouped, g, da, cursor, cubes>>

\* lines 106-118: the coordinates of the group, the native axis of the sample
\* array, and the empty cube.  The sample array is read from the store; a
\* read that raises is ReadFails.
CreateCube ==
    /\ pc = "create"
    /\ ArrayFile(Group.indexes[1].key) \in DOMAIN fs
    /\ LET sample_array == ReadSourceArray(fs, Group.indexes[1].key)
           coords == [native |-> [k \in DOMAIN sample_array |-> k]]
                        @@ IndexesToCoords(Group.indexes)
       IN  da' = CreateEmptyArray(coords, indicator_name)
    /\ cursor' = 1
    /\ pc' = "fill"
    /\ UNCHANGED <<fs, fs0, output_dir, indicator_name, split_years, error, parsed,
                   indexes, indexes_grouped, g, output_paths, cubes>>

\* lines 121-123: one turn of the fill loop
FillNext ==
    /\ pc = "fill"
    /\ ArrayFile(Group.indexes[cursor].key) \in DOMAIN fs
    /\ da' = LocAssign(da, Group.indexes[cursor].index, ReadSourceArray(fs, Group.indexes[cursor].key))
    /\ cursor' = cursor + 1
    /\ pc' = IF cursor = Len(Group.indexes) THEN "write" ELSE "fill"
    /\ UNCHANGED <<fs, fs0, output_dir, indicator_name, split_years, error, parsed,
                   indexes, indexes_grouped, g, output_paths, cubes>>

\* lines 126-127, then the next group, or the return of output_paths
WriteCube ==
    /\ pc = "write"
    /\ fs' = ToZarr(fs, CurrentPath, da)
    /\ cubes' = (CurrentPath :> da) @@ cubes
    /\ g' = g + 1
    /\ pc' = IF g = Len(indexes_grouped) THEN "done" ELSE "prepare"
    /\ UNCHANGED <<fs0, output_dir, indicator_name, split_years, error, parsed,
                   indexes, indexes_grouped, output_paths, da, cursor>>

\* The failure of a read caught, and the loop gone on to the next group.
ReadFailsAndGoesOn ==
    /\ pc \in {"create", "fill"}
    /\ error' = "OSError"
    /\ g' = g + 1
    /\ pc' = IF g = Len(indexes_grouped) THEN "done" ELSE "prepare"
    /\ UNCHANGED <<fs, fs0, output_dir, indicator_name, split_years, parsed,
                   indexes, indexes_grouped, output_paths, da, cursor, cubes>>

\* Reading a source array raises (the sample array or an array of the fill
\* loop): nothing catches it.
ReadFails ==
    /\ pc \in {"create", "fill"}
    /\ error' = "OSError"
    /\ pc' = "failed"
    /\ UNCHANGED <<fs, fs0, output_dir, indicator_name, split_years, parsed,
                   indexes, indexes_grouped, g, output_paths, da, cursor, cubes>>

\* to_zarr raises, before or after it has begun the store: nothing catches it.
WriteFails ==
    /\ pc = "write"
    /\ \E begun \in BOOLEAN :
        fs' = IF begun
              THEN (Join(CurrentPath, <<".", "z", "g", "r", "o", "u", "p">>) :> [group |-> "zarr"]) @@ fs
              ELSE fs
    /\ error' = "OSError"
    /\ pc' = "failed"
    /\ UNCHANGED <<fs0, output_dir, indicator_name, split_years, parsed,
                   indexes, indexes_grouped, g, output_paths, da, cursor, cubes>>

Next ==
    \/ IndexArrays
    \/ GroupByYear
    \/ PrepareOutput
    \/ CreateCube
    \/ FillNext
    \/ WriteCube
    \/ ReadFails
    \/ WriteFails

Spec == Init /\ [][Next]_vars
(***************************************************************************)
(* Properties.                                                             *)
(***************************************************************************)
\* The keys of the source store when the run started.
SourceKeys == StoreKeys(fs0, StorePath)

\* The grouping has been done.
AfterGrouping ==
    \/ pc \in {"prepare", "create", "fill", "write", "done"}
    \/ pc = "failed" /\ error = "OSError"

\* The files of f at or below a directory, with their contents.
FilesUnder(f, dir) == [p \in {q \in DOMAIN f : Under(q, dir)} |-> f[p]]

\* The files that the run has added or changed.
ChangedFiles == {p \in DOMAIN fs : p \notin DOMAIN fs0 \/ fs[p] # fs0[p]}

\* C8: when no key of the source store matches the nested convention nor the
\* flat one, the run fails with RuntimeError (the StoreStructureError of the
\* specification) and has parsed no key, computed no coordinates and left
\* every file as it was.
NoMatchFailsBeforeAnyWork ==
    (/\ pc # "index"
     /\ FnFilter(SourceKeys, NestedSuffix) = {}
     /\ FnFilter(SourceKeys, ZarraySuffix) = {})
    => /\ pc = "failed"
       /\ error = "RuntimeError"
       /\ parsed = <<>>
       /\ indexes = <<>>
       /\ indexes_grouped = <<>>
       /\ da = NoCube
       /\ fs = fs0

\* A store that holds keys, none of them matching, has been refused.
NoMatchWitness == error = "RuntimeError" /\ SourceKeys # {} /\ pc = "failed"

\* The groups that hold the item of the catalog at k.
GroupsHolding(k) ==
    {h \in DOMAIN indexes_grouped :
        \E j \in DOMAIN indexes_grouped[h].indexes : indexes_grouped[h].indexes[j] = indexes[k]}

\* C2: with split_years the groups partition the catalog: every key is in
\* exactly one group, once, and that group is keyed by the year of the key's
\* time; every member of a group is an item of the catalog; no group is empty.
SplitGroupsPartitionCatalog ==
    (split_years /\ AfterGrouping)
    => /\ \A k \in DOMAIN indexes :
            /\ Cardinality(GroupsHolding(k)) = 1
            /\ \A h \in GroupsHolding(k) :
                /\ indexes_grouped[h].year = indexes[k].index.time[1]
                /\ Cardinality({j \in DOMAIN indexes_grouped[h].indexes :
                                   indexes_grouped[h].indexes[j].key = indexes[k].key}) = 1
       /\ \A h \in DOMAIN indexes_grouped :
            /\ indexes_grouped[h].indexes # <<>>
            /\ \A j \in DOMAIN indexes_grouped[h].indexes :
                 \E k \in DOMAIN indexes : indexes[k] = indexes_grouped[h].indexes[j]
       /\ \A h1, h2 \in DOMAIN indexes_grouped :
            h1 # h2 => indexes_grouped[h1].year # indexes_grouped[h2].year

\* A catalog split into several groups, one of them with several keys.
SplitGroupsWitness ==
    /\ split_years
    /\ AfterGrouping
    /\ Len(indexes_grouped) >= 2
    /\ \E h \in DOMAIN indexes_grouped : Len(indexes_grouped[h].indexes) >= 2

\* C6: without split_years there is exactly one group, it holds every record
\* of the catalog, in order, under the year of the first record, and a run
\* that ends has written exactly one output store.
SingleGroupHoldsCatalog ==
    (~split_years /\ AfterGrouping)
    => /\ Len(indexes_grouped) = 1
       /\ indexes_grouped[1].indexes = indexes
       /\ indexes_grouped[1].year = indexes[1].index.time[1]
       /\ pc = "done" =>
            /\ DOMAIN output_paths = {indexes[1].index.time[1]}
            /\ ChangedFiles = {Join(output_paths[indexes[1].index.time[1]], Zmetadata)}

\* A single group that holds records of a year other than its key, written.
SingleGroupWitness ==
    /\ ~split_years
    /\ pc = "done"
    /\ Len(indexes) >= 2
    /\ \E k \in DOMAIN indexes : indexes[k].index.time[1] # indexes_grouped[1].year
    /\ indexes[Len(indexes)].index.time[1] # indexes[1].index.time[1]
\* The index fields at position q of the cube, read off its coordinates.
RecordAt(q) ==
    [temperature |-> da.coords.temperature[q[1]],
     gcm         |-> da.coords.gcm[q[2]],
     scenario    |-> da.coords.scenario[q[3]],
     time        |-> da.coords.time[q[4]]]

\* Position q lies in the slice of some key of the group.
Populated(q) == \E k \in DOMAIN Group.indexes : Group.indexes[k].index = RecordAt(q)

\* C7: the shape of the cube is the numbers of distinct temperatures, gcms,
\* scenarios and times of the group, then the length of the native axis of
\* the sample array; the cells are those of that shape; and through the fill
\* loop and after it every cell outside the slices of the group's keys is 0.
CubeShapeAndZeros ==
    pc \in {"fill", "write"}
    => /\ da.shape =
            <<Cardinality({Group.indexes[k].index.temperature : k \in DOMAIN Group.indexes}),
              Cardinality({Group.indexes[k].index.gcm : k \in DOMAIN Group.indexes}),
              Cardinality({Group.indexes[k].index.scenario : k \in DOMAIN Group.indexes}),
              Cardinality({Group.indexes[k].index.time : k \in DOMAIN Group.indexes}),
              Len(fs0[ArrayFile(Group.indexes[1].key)].array[1])>>
       /\ Cardinality(DOMAIN da.values) =
            da.shape[1] * da.shape[2] * da.shape[3] * da.shape[4] * da.shape[5]
       /\ \A q \in DOMAIN da.values :
            /\ \A a \in 1..5 : q[a] \in 1..da.shape[a]
            /\ ~Populated(q) => da.values[q] = 0

\* A filled cube with a slice that no key of the group addresses.
CubeZerosWitness ==
    /\ pc = "write"
    /\ \E q \in DOMAIN da.values : ~Populated(q)
    /\ \E q \in DOMAIN da.values : Populated(q) /\ da.values[q] # 0

\* The output path of group h.
PathOfGroup(h) == OutputPath(output_dir, indicator_name, indexes_grouped[h].year)

\* C5: when a read or a write fails in group g the run ends with that error;
\* the output path of every later group holds what it held when the run
\* started, and the output path of every earlier group holds the cube that
\* was written to it.
FailureEndsRun ==
    error = "OSError"
    => /\ pc = "failed"
       /\ \A h \in DOMAIN indexes_grouped :
            /\ h > g => FilesUnder(fs, PathOfGroup(h)) = FilesUnder(fs0, PathOfGroup(h))
            /\ h < g => /\ PathOfGroup(h) \in DOMAIN cubes
                        /\ FilesUnder(fs, PathOfGroup(h)) =
                             (Join(PathOfGroup(h), Zmetadata) :> [dataset |-> cubes[PathOfGroup(h)]])

\* A failure in a group between a written group and a later group whose
\* output path holds a store from an earlier run.
FailureWitness ==
    /\ error = "OSError"
    /\ g > 1
    /\ \E h \in DOMAIN indexes_grouped : h > g /\ IsDir(fs, PathOfGroup(h))

\* year as four decimal digits
FourDigits(year) ==
    <<DigitSeq[((year \div 1000) % 10) + 1], DigitSeq[((year \div 100) % 10) + 1],
      DigitSeq[((year \div 10) % 10) + 1], DigitSeq[(year % 10) + 1]>>

\* The groups before g have been written.
PersistedAt(h, path) ==
    /\ indexes_grouped[h].year \in DOMAIN output_paths
    /\ output_paths[indexes_grouped[h].year] = path
    /\ path \in DOMAIN cubes
    /\ cubes[path].coords.time =
         SortSeq(SetAsSeq({indexes_grouped[h].indexes[k].index.time :
                              k \in DOMAIN indexes_grouped[h].indexes}), DateLess)
    /\ FilesUnder(fs, path) = (Join(path, Zmetadata) :> [dataset |-> cubes[path]])

\* C10, as amended: the cube of every written group is the only content of the
\* store at {output_dir}/{indicator_name}_{year:04d}.zarr, whatever was there
\* before, and the returned mapping takes the year of each group to that path.
CubePersistedAtZarrPath ==
    /\ \A h \in DOMAIN indexes_grouped :
         h < g => PersistedAt(h, Join(output_dir, indicator_name \o <<"_">>
                                        \o FourDigits(indexes_grouped[h].year) \o DotZarr))
    /\ pc = "done" =>
         DOMAIN output_paths = {indexes_grouped[h].year : h \in DOMAIN indexes_grouped}

\* C10, as stated: the path is {output_dir}/{indicator_name}_{year:04d}.
CubePersistedAtBarePath ==
    /\ \A h \in DOMAIN indexes_grouped :
         h < g => PersistedAt(h, Join(output_dir, indicator_name \o <<"_">>
                                        \o FourDigits(indexes_grouped[h].year)))
    /\ pc = "done" =>
         DOMAIN output_paths = {indexes_grouped[h].year : h \in DOMAIN indexes_grouped}

\* A run that ended after it replaced a store of an earlier run, and wrote a
\* cube for a year of fewer than four digits.
CubePersistedWitness ==
    /\ pc = "done"
    /\ IsDir(fs0, StalePath(output_dir, indicator_name))
    /\ StalePath(output_dir, indicator_name) \in DOMAIN cubes
    /\ \E y \in DOMAIN output_paths : y < 1000
\* The position of the slice that an index record addresses.
SliceOf(index) ==
    <<PositionOf(da.coords.temperature, index.temperature),
      PositionOf(da.coords.gcm, index.gcm),
      PositionOf(da.coords.scenario, index.scenario),
      PositionOf(da.coords.time, index.time)>>

\* The slice of the cube at a position holds the values of a source array.
SliceHolds(at, source) ==
    \A c \in DOMAIN source : da.values[at \o <<c>>] = source[c]

\* C1: after the fill loop the slice that the index record of each key of the
\* group addresses holds the values of the source array of that key, and the
\* keys of the group have slices of their own.
EverySliceHoldsItsSource ==
    pc = "write"
    => /\ \A k \in DOMAIN Group.indexes :
            SliceHolds(SliceOf(Group.indexes[k].index),
                       fs0[ArrayFile(Group.indexes[k].key)].array[1])
       /\ \A j, k \in DOMAIN Group.indexes :
            j # k => SliceOf(Group.indexes[j].index) # SliceOf(Group.indexes[k].index)

\* C9: the source store holds the same keys with the same contents as when
\* the run started.
SourceStoreNeverChanges == FilesUnder(fs, StorePath) = FilesUnder(fs0, StorePath)

(***************************************************************************)
(* The structure <prefix>_<temperature>c_<gcm>_<scenario>_<year> of a key, *)
(* read from its end: the fields between the "_" of the key.               *)
(***************************************************************************)
RECURSIVE SplitOn(_, _)
SplitOn(s, c) ==
    IF \A n \in DOMAIN s : s[n] # c THEN <<s>>
    ELSE <<SubSeq(s, 1, Least({n \in DOMAIN s : s[n] = c}) - 1)>>
            \o SplitOn(SubSeq(s, Least({n \in DOMAIN s : s[n] = c}) + 1, Len(s)), c)

AllIn(s, C) == s # <<>> /\ \A n \in DOMAIN s : s[n] \in C

\* digits, or digits "." digits: with two digits or more
IsTemperature(t) ==
    \/ AllIn(t, DigitClass) /\ Len(t) >= 2
    \/ \E p \in DOMAIN t :
        /\ t[p] = "."
        /\ AllIn(SubSeq(t, 1, p - 1), DigitClass)
        /\ AllIn(SubSeq(t, p + 1, Len(t)), DigitClass)

\* The last four fields are <temperature>c, <gcm>, <scenario> and <year>.
FieldsWellFormed(f) ==
    /\ Len(f) >= 4
    /\ Len(f[Len(f)]) = 4
    /\ AllIn(f[Len(f)], DigitClass)
    /\ f[Len(f)] # <<"0", "0", "0", "0">>
    /\ AllIn(f[Len(f) - 1], ScenarioClass)
    /\ AllIn(f[Len(f) - 2], GcmClass)
    /\ Len(f[Len(f) - 3]) >= 2
    /\ f[Len(f) - 3][Len(f[Len(f) - 3])] = "c"
    /\ IsTemperature(SubSeq(f[Len(f) - 3], 1, Len(f[Len(f) - 3]) - 1))

\* The fields of an array key (of either layout).
KeyFields(key) == SplitOn(RemoveSuffix(key, <<"/">> \o INDICATOR_NAME), "_")

\* A prefix, which may be empty, then "_" and the four fields.
HasStructure(key) == Len(KeyFields(key)) >= 5 /\ FieldsWellFormed(KeyFields(key))

\* The four fields and nothing before them.
HasBareStructure(key) == Len(KeyFields(key)) = 4 /\ FieldsWellFormed(KeyFields(key))

YearField(key) ==
    DigitValue(KeyFields(key)[Len(KeyFields(key))][1]) * 1000
        + DigitValue(KeyFields(key)[Len(KeyFields(key))][2]) * 100
        + DigitValue(KeyFields(key)[Len(KeyFields(key))][3]) * 10
        + DigitValue(KeyFields(key)[Len(KeyFields(key))][4])

\* The array keys the run indexes: those of the convention that matches.
Selected == {RemoveSuffix(k, ZarraySuffix) : k \in ArrayKeys(SourceKeys)}

\* C4: when a key that passes the filter does not have the structure, the run
\* fails with ValueError (the ParseError of the specification), and every
\* file is as it was.
MalformedKeyRaisesValueError ==
    (pc # "index" /\ \E key \in Selected : ~HasStructure(key))
    => /\ pc = "failed"
       /\ error = "ValueError"
       /\ fs = fs0

\* Every key of the catalog is parsed, into the fields that it spells.
ParsedAsSpelled ==
    /\ error \in {"none", "OSError"}
    /\ Len(indexes) = Cardinality(Selected)
    /\ {indexes[k].key : k \in DOMAIN indexes} = Selected
    /\ \A k \in DOMAIN indexes :
         /\ indexes[k].index.time = <<YearField(indexes[k].key), 1, 1>>
         /\ indexes[k].index.scenario = KeyFields(indexes[k].key)[Len(KeyFields(indexes[k].key)) - 1]
         /\ indexes[k].index.gcm = KeyFields(indexes[k].key)[Len(KeyFields(indexes[k].key)) - 2]

\* One output store per year of the keys, from the keys of that year.
OneStorePerYear ==
    /\ DOMAIN output_paths = {YearField(key) : key \in Selected}
    /\ Len(indexes_grouped) = Cardinality({YearField(key) : key \in Selected})
    /\ \A h \in DOMAIN indexes_grouped :
         /\ {indexes_grouped[h].indexes[k].key : k \in DOMAIN indexes_grouped[h].indexes}
              = {key \in Selected : YearField(key) = indexes_grouped[h].year}
         /\ Len(indexes_grouped[h].indexes)
              = Cardinality({key \in Selected : YearField(key) = indexes_grouped[h].year})
         /\ Join(output_paths[indexes_grouped[h].year], Zmetadata) \in DOMAIN fs
         /\ fs[Join(output_paths[indexes_grouped[h].year], Zmetadata)].dataset.coords.time
              = << <<indexes_grouped[h].year, 1, 1>> >>

====
